---- MODULE Spec2Model ----
(***************************************************************************)
(* A model of the music separator backend: the separation engine           *)
(* (audio_processor/separator.py), its band filters                        *)
(* (audio_processor/filters.py) and the job server that runs the engine    *)
(* on a background thread per upload (app.py).                             *)
(*                                                                         *)
(* Progress fractions are kept in tenths: 4 stands for 0.4, 10 for 1.0.    *)
(* File extensions are sequences of one-character strings, so that         *)
(* str.lower() is a computation on characters.                             *)
(* Normalised frequencies are kept as integers scaled by 100 * sr, so that *)
(* freq / (sr / 2) is 200 * freq and the clamp edges 0.01, 0.99 are sr and *)
(* 99 * sr.                                                                *)
(***************************************************************************)
EXTENDS Integers, Sequences, FiniteSets, TLC

VARIABLES
    processing_jobs,  \* app.py: keys of the dict processing_jobs
    job,              \* app.py: the ProcessingJob objects, by job id
    bg,               \* app.py: position of each process_audio_background thread
    call,             \* separator.py: the frame of each AudioSeparator.process call
    disk,             \* files: uploads, temporary outputs, final outputs
    resp,             \* app.py: the response of the last HTTP request
    flt,              \* filters.py: one direct filter call (input, output, designs)
    dsp,              \* utils.py, separator.py: one direct call of a numeric routine
    sweep,            \* app.py: the cleanup thread of cleanup_old_jobs
    aged              \* app.py: the jobs created more than an hour ago

vars == <<processing_jobs, job, bg, call, disk, resp, flt, dsp, sweep, aged>>

(***************************************************************************)
(* Bounds                                                                  *)
(***************************************************************************)
MaxJobs == 1
MaxChannels == 3

JobIds == 1..MaxJobs

None == "None"

(***************************************************************************)
(* Inputs                                                                  *)
(***************************************************************************)
KnownMethods == {"vocal_removal", "instrumental_isolation", "harmonic_percussive"}
Methods == KnownMethods \cup {"bogus_method"}
Qualities == {"low", "medium", "high", "ultra"}

ExtWav == <<".", "w", "a", "v">>
ExtFlac == <<".", "f", "l", "a", "c">>
Exts == {ExtWav, ExtFlac,
         <<".", "W", "A", "V">>, <<".", "W", "a", "v">>,
         <<".", "F", "L", "A", "C">>,
         <<".", "m", "p", "3">>, <<".", "O", "G", "G">>}

Signals == {"a", "b"}
SampleRates == {100, 3000, 44100, 96000}

\* What librosa.load(path, sr=None, mono=False) yields: a 1-D array for a
\* one-channel file, a 2-D array (channels x samples) otherwise.
RECURSIVE SeqsOf(_, _)
SeqsOf(S, n) ==
    IF n = 0 THEN {<<>>}
    ELSE {Append(s, x) : s \in SeqsOf(S, n - 1), x \in S}

Buffers ==
    {[ndim |-> 1, ch |-> <<s>>] : s \in Signals}
    \cup UNION {{[ndim |-> 2, ch |-> c] : c \in SeqsOf(Signals, n)} : n \in 2..MaxChannels}

NoBuffer == [ndim |-> 0, ch |-> <<>>]

\* the signal whose samples are all 0.0, and the buffers made of it alone
Zero == "zero"

Silent(y) == y.ch /= <<>> /\ \A i \in 1..Len(y.ch) : y.ch[i] = Zero

SilentBuffers ==
    {[ndim |-> 1, ch |-> <<Zero>>]}
    \cup {[ndim |-> 2, ch |-> [i \in 1..n |-> Zero]] : n \in 2..MaxChannels}

(***************************************************************************)
(* separator.py: pure parts                                                *)
(***************************************************************************)
\* str.lower() on one character
LowerChar(c) ==
    CASE c = "W" -> "w" [] c = "A" -> "a" [] c = "V" -> "v"
      [] c = "F" -> "f" [] c = "L" -> "l" [] c = "C" -> "c"
      [] c = "O" -> "o" [] c = "G" -> "g" [] c = "M" -> "m" [] c = "P" -> "p"
      [] OTHER -> c

Lower(s) == [i \in 1..Len(s) |-> LowerChar(s[i])]

\* a resolver whose medium tier keeps the window of the low tier
GetQualityParamsShortWindow(quality) ==
    IF quality = "low"
    THEN [n_fft |-> 1024, hop_length |-> 512, win_length |-> 1024]
    ELSE IF quality = "medium"
    THEN [n_fft |-> 2048, hop_length |-> 512, win_length |-> 1024]
    ELSE [n_fft |-> 4096, hop_length |-> 1024, win_length |-> 4096]

GetQualityParams(quality) ==
    IF quality = "low"
    THEN [n_fft |-> 1024, hop_length |-> 512, win_length |-> 1024]
    ELSE IF quality = "medium"
    THEN [n_fft |-> 2048, hop_length |-> 512, win_length |-> 2048]
    ELSE [n_fft |-> 4096, hop_length |-> 1024, win_length |-> 4096]

NoParams == [n_fft |-> 0, hop_length |-> 0, win_length |-> 0]

\* a reshape that forgets to duplicate a mono signal
EnsureStereoKeepMono(y) ==
    IF Len(y.ch) > 2 THEN [ndim |-> 2, ch |-> SubSeq(y.ch, 1, 2)] ELSE y

\* "Ensure stereo shape"
EnsureStereo(y) ==
    IF y.ndim = 1 THEN [ndim |-> 2, ch |-> <<y.ch[1], y.ch[1]>>]
    ELSE IF Len(y.ch) > 2 THEN [ndim |-> 2, ch |-> SubSeq(y.ch, 1, 2)]
    ELSE y

\* _save_output: the suffix of the temporary file and the format written
SaveExt(ext) == IF Lower(ext) \notin {ExtWav, ExtFlac} THEN ExtWav ELSE ext

SaveFormat(ext) == IF SaveExt(ext) = ExtWav THEN "WAV" ELSE "FLAC"

(***************************************************************************)
(* filters.py                                                              *)
(***************************************************************************)
Min(a, b) == IF a < b THEN a ELSE b
Max(a, b) == IF a > b THEN a ELSE b

\* freq / nyquist with nyquist = sr / 2, scaled by 100 * sr
Normalize(freq, sr) == 200 * freq

\* a clamp without its lower edge
ClampUpperOnly(x, sr) == Min(99 * sr, x)

\* max(0.01, min(0.99, x)), scaled by 100 * sr
Clamp(x, sr) == Max(sr, Min(99 * sr, x))

\* signal.butter(order, [low, high], btype): the designed filter, as a term
Butter(order, low, high, btype) ==
    [order |-> order, low |-> low, high |-> high, btype |-> btype]

\* signal.filtfilt(b, a, x) raises ValueError unless len(x) > padlen, where
\* padlen = 3 * max(len(a), len(b)) and a band filter of order N has 2N + 1
\* coefficients
FiltFiltRaises(f, audio) == audio.n <= 3 * (2 * f.order + 1)

\* signal.filtfilt(b, a, x): the filtered buffer, as a term
FiltFilt(f, audio) == [audio EXCEPT !.filters = Append(@, f)]

\* an audio buffer: the signal it came from, its length, the filters applied
NoAudio == [id |-> <<>>, n |-> 0, filters |-> <<>>]

\* the outcome of a filter call: the buffer returned, the exception raised,
\* the filters designed on the way
FilterResult(out, err, designed) == [out |-> out, err |-> err, designed |-> designed]

bandpass_filter(audio, sr, low_freq, high_freq, order) ==
    LET low_norm == Clamp(Normalize(low_freq, sr), sr)
        high_norm == Clamp(Normalize(high_freq, sr), sr)
        f == Butter(order, low_norm, high_norm, "band")
    IN  IF low_norm >= high_norm
        THEN FilterResult(audio, None, <<>>)
        ELSE IF FiltFiltRaises(f, audio)
        THEN FilterResult(NoAudio, "ValueError", <<f>>)
        ELSE FilterResult(FiltFilt(f, audio), None, <<f>>)

bandstop_filter(audio, sr, low_freq, high_freq, order) ==
    LET low_norm == Clamp(Normalize(low_freq, sr), sr)
        high_norm == Clamp(Normalize(high_freq, sr), sr)
        f == Butter(order, low_norm, high_norm, "bandstop")
    IN  IF low_norm >= high_norm
        THEN FilterResult(audio, None, <<>>)
        ELSE IF FiltFiltRaises(f, audio)
        THEN FilterResult(NoAudio, "ValueError", <<f>>)
        ELSE FilterResult(FiltFilt(f, audio), None, <<f>>)

vocal_ranges == << <<80, 300>>, <<2000, 4000>> >>

\* one iteration of the loop of apply_vocal_suppression_filter, on the
\* result of the iterations before it
VocalBand(acc, sr, range) ==
    LET low_norm == Clamp(Normalize(range[1], sr), sr)
        high_norm == Clamp(Normalize(range[2], sr), sr)
        f == Butter(4, low_norm, high_norm, "bandstop")
    IN  IF acc.err /= None THEN acc
        ELSE IF low_norm < high_norm
        THEN IF FiltFiltRaises(f, acc.out)
             THEN FilterResult(NoAudio, "ValueError", Append(acc.designed, f))
             ELSE FilterResult(FiltFilt(f, acc.out), None, Append(acc.designed, f))
        ELSE acc

RECURSIVE VocalLoop(_, _, _)
VocalLoop(acc, sr, ranges) ==
    IF ranges = <<>> THEN acc
    ELSE VocalLoop(VocalBand(acc, sr, Head(ranges)), sr, Tail(ranges))

apply_vocal_suppression_filter(audio, sr) ==
    VocalLoop(FilterResult(audio, None, <<>>), sr, vocal_ranges)

(***************************************************************************)
(* separator.py: AudioSeparator.process, one action per stretch of code    *)
(* that ends in a progress callback, a return or a raise                   *)
(***************************************************************************)
NoResult == [method |-> None, ch |-> <<>>, n_fft |-> 0, hop_length |-> 0, filters |-> <<>>]

NoFile == [suffix |-> <<>>, format |-> None]

IdleCall ==
    [pc |-> "idle", method |-> None, quality |-> None, ext |-> <<>>,
     file |-> [y |-> NoBuffer, sr |-> 0, n |-> 0], y |-> NoBuffer, sr |-> 0,
     params |-> NoParams, processed |-> NoResult,
     emitted |-> <<>>, trace |-> <<>>, ret |-> None, err |-> None]

\* the frame on entry of process(input_path, method, quality, progress_callback)
NewCall(method, quality, ext, file) ==
    [IdleCall EXCEPT !.pc = "enter", !.method = method, !.quality = quality,
                     !.ext = ext, !.file = file]

\* app.py, the callback of process_audio_background:
\* job.progress = min(90, 10 + int(progress * 0.8)); a direct call of
\* process has no job and its callback only receives the value
JobProgress(v) == Min(90, 10 + ((v * 8) \div 100))

Callback(c, v) ==
    job' = IF c \in DOMAIN job THEN [job EXCEPT ![c].progress = JobProgress(v)] ELSE job

Emit(f, v) == [f EXCEPT !.emitted = Append(@, v)]

Did(f, step) == [f EXCEPT !.trace = Append(@, step)]

Raise(f, e) == [f EXCEPT !.pc = "raised", !.err = e]

\* progress_callback(v) and on to the next stretch
Advance(c, f, v, pc) ==
    /\ call' = [call EXCEPT ![c] = [Emit(f, v) EXCEPT !.pc = pc]]
    /\ Callback(c, v)
    /\ UNCHANGED <<processing_jobs, bg, disk, resp, flt, dsp, sweep, aged>>

\* an exception leaves the frame
Fail(c, f, e) ==
    /\ call' = [call EXCEPT ![c] = Raise(f, e)]
    /\ UNCHANGED <<processing_jobs, job, bg, disk, resp, flt, dsp, sweep, aged>>

P_Enter(c) ==
    /\ call[c].pc = "enter"
    /\ Advance(c, call[c], 1, "load")

P_Load(c) ==
    /\ call[c].pc = "load"
    /\ \/ Advance(c, [Did(call[c], "load") EXCEPT !.y = call[c].file.y,
                                                  !.sr = call[c].file.sr],
                  2, "reshape")
       \/ Fail(c, Did(call[c], "load"), "LoadError")

P_EnsureStereo(c) ==
    /\ call[c].pc = "reshape"
    /\ Advance(c, [Did(call[c], "reshape") EXCEPT !.y = EnsureStereo(@)], 3, "dispatch")

\* a branch or a return that reports no progress
Goto(c, f, pc) ==
    /\ call' = [call EXCEPT ![c] = [f EXCEPT !.pc = pc]]
    /\ UNCHANGED <<processing_jobs, job, bg, disk, resp, flt, dsp, sweep, aged>>

P_Dispatch(c) ==
    LET f == [Did(call[c], "quality") EXCEPT !.params = GetQualityParams(call[c].quality)]
    IN  /\ call[c].pc = "dispatch"
        /\ IF f.method = "vocal_removal"
           THEN Goto(c, Did(f, "dispatch"), "vr_enter")
           ELSE IF f.method = "instrumental_isolation"
           THEN Goto(c, Did(f, "dispatch"), "ii_enter")
           ELSE IF f.method = "harmonic_percussive"
           THEN Goto(c, Did(f, "dispatch"), "hp_enter")
           ELSE Fail(c, Did(f, "invalid_method"), "ValueError: Unknown method")

\* _vocal_removal
VR_Enter(c) ==
    /\ call[c].pc = "vr_enter"
    /\ Advance(c, call[c], 4, "vr_subtract")

VR_Subtract(c) ==
    /\ call[c].pc = "vr_subtract"
    /\ Advance(c, call[c], 6, "vr_stft")

VR_Stft(c) ==
    /\ call[c].pc = "vr_stft"
    /\ \/ Advance(c, call[c], 7, "vr_mask")
       \/ ~Silent(call[c].y) /\ Fail(c, call[c], "ParameterError")

VR_Mask(c) ==
    /\ call[c].pc = "vr_mask"
    /\ Advance(c, call[c], 8, "vr_blend")

\* librosa.istft(stft_matrix, hop_length) without length: the frames of
\* librosa.stft(y, n_fft, hop_length) are 1 + len(y) // hop_length, and the
\* signal rebuilt from them has hop_length * (frames - 1) samples
IstftLen(n, hop_length) == hop_length * (n \div hop_length)

\* the length of a + b for 1-D arrays of n and m samples, -1 when numpy
\* cannot broadcast them
BroadcastLen(n, m) ==
    IF n = m THEN n ELSE IF n = 1 THEN m ELSE IF m = 1 THEN n ELSE -1

\* normalise both estimates, blend them 0.3 / 0.7, filter, normalise
VR_Blend(c) ==
    LET f == call[c]
        n == BroadcastLen(f.file.n, IstftLen(f.file.n, f.params.hop_length))
        blend == [id |-> f.y.ch, n |-> n, filters |-> <<>>]
        r == apply_vocal_suppression_filter(blend, f.sr)
    IN  /\ f.pc = "vr_blend"
        /\ IF n < 0
           THEN Fail(c, f, "ValueError: operands could not be broadcast together")
           ELSE IF r.err /= None
           THEN Fail(c, f, r.err)
           ELSE Goto(c, [f EXCEPT !.processed =
                            [method |-> "vocal_removal", ch |-> f.y.ch,
                             n_fft |-> f.params.n_fft,
                             hop_length |-> f.params.hop_length,
                             filters |-> r.out.filters]],
                     "post")

\* _instrumental_isolation
II_Enter(c) ==
    /\ call[c].pc = "ii_enter"
    /\ Advance(c, call[c], 4, "ii_enhance")

II_Enhance(c) ==
    /\ call[c].pc = "ii_enhance"
    /\ Advance(c, call[c], 6, "ii_hpss")

II_Hpss(c) ==
    /\ call[c].pc = "ii_hpss"
    /\ \/ Advance(c, call[c], 8, "ii_mix")
       \/ ~Silent(call[c].y) /\ Fail(c, call[c], "ParameterError")

II_Mix(c) ==
    /\ call[c].pc = "ii_mix"
    /\ Goto(c, [call[c] EXCEPT !.processed =
                   [NoResult EXCEPT !.method = "instrumental_isolation",
                                    !.ch = call[c].y.ch]],
            "post")

\* _harmonic_percussive_separation
HP_Enter(c) ==
    /\ call[c].pc = "hp_enter"
    /\ Advance(c, call[c], 4, "hp_hpss")

HP_Hpss(c) ==
    /\ call[c].pc = "hp_hpss"
    /\ \/ Advance(c, call[c], 7, "hp_result")
       \/ ~Silent(call[c].y) /\ Fail(c, call[c], "ParameterError")

HP_Result(c) ==
    /\ call[c].pc = "hp_result"
    /\ Advance(c, call[c], 8, "hp_return")

HP_Return(c) ==
    /\ call[c].pc = "hp_return"
    /\ Goto(c, [call[c] EXCEPT !.processed =
                   [NoResult EXCEPT !.method = "harmonic_percussive",
                                    !.ch = call[c].y.ch]],
            "post")

\* back in process: progress_callback(0.9)
P_Post(c) ==
    /\ call[c].pc = "post"
    /\ Advance(c, call[c], 9, "save")

\* _save_output: the temporary file is created with suffix ext, then
\* sf.write either fills it in the chosen format or raises and leaves it empty
P_SaveOutput(c) ==
    /\ call[c].pc = "save"
    /\ \/ /\ call' = [call EXCEPT ![c] = [Did(@, "save") EXCEPT !.pc = "final"]]
          /\ disk' = [disk EXCEPT !.tmp[c] = [suffix |-> SaveExt(call[c].ext),
                                              format |-> SaveFormat(call[c].ext)]]
       \/ /\ call' = [call EXCEPT ![c] = Raise(Did(@, "save"), "WriteError")]
          /\ disk' = [disk EXCEPT !.tmp[c] = [suffix |-> SaveExt(call[c].ext),
                                              format |-> "EMPTY"]]
    /\ UNCHANGED <<processing_jobs, job, bg, resp, flt, dsp, sweep, aged>>

\* process without its last progress report
P_ReturnSilently(c) ==
    /\ call[c].pc = "final"
    /\ Goto(c, [call[c] EXCEPT !.ret = "tmp"], "returned")

\* progress_callback(1.0); return output_file
P_Return(c) ==
    /\ call[c].pc = "final"
    /\ Advance(c, [call[c] EXCEPT !.ret = "tmp"], 10, "returned")

ProcessStep(c) ==
    \/ P_Enter(c) \/ P_Load(c) \/ P_EnsureStereo(c) \/ P_Dispatch(c)
    \/ VR_Enter(c) \/ VR_Subtract(c) \/ VR_Stft(c) \/ VR_Mask(c) \/ VR_Blend(c)
    \/ II_Enter(c) \/ II_Enhance(c) \/ II_Hpss(c) \/ II_Mix(c)
    \/ HP_Enter(c) \/ HP_Hpss(c) \/ HP_Result(c) \/ HP_Return(c)
    \/ P_Post(c) \/ P_SaveOutput(c) \/ P_Return(c)

(***************************************************************************)
(* A direct call of AudioSeparator.process, outside the server             *)
(***************************************************************************)
AudioLens == {20, 1000, 2048}

Files == {[y |-> y, sr |-> sr, n |-> n] : y \in Buffers, sr \in SampleRates, n \in AudioLens}

NoFlt == [pc |-> "none"]

NoDsp == [pc |-> "none"]

\* the cleanup thread between two sweeps (time.sleep(300))
SweepAsleep == [pc |-> "sleep", expired |-> {}, size |-> 0, todo |-> {}, jobs_to_remove |-> {}]

NoThread == [pc |-> "none", exc |-> None]

EmptyDisk == [uploads |-> {}, tmp |-> [c \in JobIds |-> NoFile],
              outputs |-> [c \in JobIds |-> NoFile]]

NoResp == [route |-> None, id |-> 0, code |-> 0, status |-> None,
           progress |-> 0, file |-> None]

InitEngine ==
    /\ processing_jobs = {}
    /\ job = <<>>
    /\ bg = [j \in JobIds |-> NoThread]
    /\ \E m \in Methods, q \in Qualities, e \in Exts, f \in Files :
          call = [c \in JobIds |-> IF c = 1 THEN NewCall(m, q, e, f) ELSE IdleCall]
    /\ disk = EmptyDisk
    /\ resp = NoResp
    /\ flt = NoFlt
    /\ dsp = NoDsp
    /\ sweep = SweepAsleep
    /\ aged = {}

NextEngine == \E c \in JobIds : ProcessStep(c)

\* the same call on a file of silence
SilentFiles ==
    {[y |-> y, sr |-> sr, n |-> n] : y \in SilentBuffers, sr \in SampleRates, n \in AudioLens}

InitSilence ==
    /\ processing_jobs = {}
    /\ job = <<>>
    /\ bg = [j \in JobIds |-> NoThread]
    /\ \E m \in KnownMethods, q \in Qualities, f \in SilentFiles :
          call = [c \in JobIds |-> IF c = 1 THEN NewCall(m, q, ExtWav, f) ELSE IdleCall]
    /\ disk = EmptyDisk
    /\ resp = NoResp
    /\ flt = NoFlt
    /\ dsp = NoDsp
    /\ sweep = SweepAsleep
    /\ aged = {}

SpecSilence == InitSilence /\ [][NextEngine]_vars

SpecEngine == InitEngine /\ [][NextEngine]_vars

(***************************************************************************)
(* app.py: the job server                                                  *)
(***************************************************************************)
\* ProcessingJob.__init__
ProcessingJob(filename) ==
    [filename |-> filename, status |-> "pending", progress |-> 0,
     error_message |-> None, output_file |-> None]

\* what the requests of the model upload: the form's method is any string,
\* its quality the default, the file a stereo recording
UploadMethods == Methods
UploadQualities == {"medium"}
UploadExts == {ExtWav}
UploadFiles == {[y |-> [ndim |-> 2, ch |-> <<"a", "b">>], sr |-> 44100, n |-> 1000]}

Response(route, id, code, status, progress, file) ==
    [route |-> route, id |-> id, code |-> code, status |-> status,
     progress |-> progress, file |-> file]

\* upload_file, rejected: no file, no name, a type not allowed, or a file
\* validate_audio_file turns down (it is removed again)
UploadRejected ==
    /\ resp' = Response("upload", 0, 400, None, 0, None)
    /\ UNCHANGED <<processing_jobs, job, bg, call, disk, flt, dsp, sweep, aged>>

\* upload_file, accepted: the file is saved, the job is registered and its
\* thread started with (job_id, filepath, method, quality)
UploadAccepted(j, method, quality, ext, file) ==
    /\ j \notin DOMAIN job
    /\ j = Cardinality(DOMAIN job) + 1
    /\ job' = [k \in DOMAIN job \cup {j} |->
                  IF k = j THEN ProcessingJob(ext) ELSE job[k]]
    /\ processing_jobs' = processing_jobs \cup {j}
    /\ disk' = [disk EXCEPT !.uploads = @ \cup {j}]
    /\ bg' = [bg EXCEPT ![j] = [pc |-> "start", exc |-> None]]
    /\ call' = [call EXCEPT ![j] = [NewCall(method, quality, ext, file) EXCEPT !.pc = "idle"]]
    /\ resp' = Response("upload", j, 200, "pending", 0, None)
    /\ UNCHANGED <<flt, dsp, sweep, aged>>

\* get_status
GetStatus(j) ==
    /\ resp' = IF j \notin processing_jobs
               THEN Response("status", j, 404, None, 0, None)
               ELSE Response("status", j, 200, job[j].status, job[j].progress, None)
    /\ UNCHANGED <<processing_jobs, job, bg, call, disk, flt, dsp, sweep, aged>>

\* download_file
DownloadFile(j) ==
    /\ resp' = IF j \notin processing_jobs
               THEN Response("download", j, 404, None, 0, None)
               ELSE IF job[j].status /= "completed"
               THEN Response("download", j, 400, job[j].status, 0, None)
               ELSE IF job[j].output_file = None \/ disk.outputs[j] = NoFile
               THEN Response("download", j, 404, job[j].status, 0, None)
               ELSE Response("download", j, 200, job[j].status, 0, job[j].output_file)
    /\ UNCHANGED <<processing_jobs, job, bg, call, disk, flt, dsp, sweep, aged>>

\* process_audio_background, one action per statement that other threads
\* can observe
BgGoto(j, pc) == bg' = [bg EXCEPT ![j].pc = pc]

BgRaise(j, e) == bg' = [bg EXCEPT ![j] = [pc |-> "except", exc |-> e]]

\* job = processing_jobs[job_id], outside the try block: a job the sweep has
\* deleted ends the thread with a KeyError; else job.status = 'processing'
BG_Start(j) ==
    /\ bg[j].pc = "start"
    /\ IF j \in processing_jobs
       THEN /\ job' = [job EXCEPT ![j].status = "processing"]
            /\ BgGoto(j, "set_initial")
       ELSE /\ bg' = [bg EXCEPT ![j] = [pc |-> "died", exc |-> "KeyError"]]
            /\ UNCHANGED job
    /\ UNCHANGED <<processing_jobs, call, disk, resp, flt, dsp, sweep, aged>>

\* job.progress = 10; separator.process(...) is entered
BG_SetInitial(j) ==
    /\ bg[j].pc = "set_initial"
    /\ job' = [job EXCEPT ![j].progress = 10]
    /\ call' = [call EXCEPT ![j].pc = "enter"]
    /\ BgGoto(j, "in_process")
    /\ UNCHANGED <<processing_jobs, disk, resp, flt, dsp, sweep, aged>>

\* a thread that marks the job completed as soon as process has returned
BG_ReturnedCompleted(j) ==
    /\ bg[j].pc = "in_process"
    /\ call[j].pc = "returned"
    /\ job' = [job EXCEPT ![j].progress = 95, ![j].status = "completed"]
    /\ BgGoto(j, "rename")
    /\ UNCHANGED <<processing_jobs, call, disk, resp, flt, dsp, sweep, aged>>

\* process returned: job.progress = 95
BG_Returned(j) ==
    /\ bg[j].pc = "in_process"
    /\ call[j].pc = "returned"
    /\ job' = [job EXCEPT ![j].progress = 95]
    /\ BgGoto(j, "rename")
    /\ UNCHANGED <<processing_jobs, call, disk, resp, flt, dsp, sweep, aged>>

\* a thread that carries on after process raised
BG_RaisedSwallowed(j) ==
    /\ bg[j].pc = "in_process"
    /\ call[j].pc = "raised"
    /\ BgGoto(j, "rename")
    /\ UNCHANGED <<processing_jobs, job, call, disk, resp, flt, dsp, sweep, aged>>

\* process raised: control passes to the except clause
BG_Raised(j) ==
    /\ bg[j].pc = "in_process"
    /\ call[j].pc = "raised"
    /\ BgRaise(j, call[j].err)
    /\ UNCHANGED <<processing_jobs, job, call, disk, resp, flt, dsp, sweep, aged>>

\* os.rename(output_file, final_output)
BG_Rename(j) ==
    /\ bg[j].pc = "rename"
    /\ \/ /\ disk' = [disk EXCEPT !.outputs[j] = disk.tmp[j], !.tmp[j] = NoFile]
          /\ BgGoto(j, "set_output")
       \/ /\ BgRaise(j, "OSError")
          /\ UNCHANGED disk
    /\ UNCHANGED <<processing_jobs, job, call, resp, flt, dsp, sweep, aged>>

BG_SetOutput(j) ==
    /\ bg[j].pc = "set_output"
    /\ job' = [job EXCEPT ![j].output_file = "final"]
    /\ BgGoto(j, "set_progress")
    /\ UNCHANGED <<processing_jobs, call, disk, resp, flt, dsp, sweep, aged>>

BG_SetProgress(j) ==
    /\ bg[j].pc = "set_progress"
    /\ job' = [job EXCEPT ![j].progress = 100]
    /\ BgGoto(j, "set_status")
    /\ UNCHANGED <<processing_jobs, call, disk, resp, flt, dsp, sweep, aged>>

BG_SetCompleted(j) ==
    /\ bg[j].pc = "set_status"
    /\ job' = [job EXCEPT ![j].status = "completed"]
    /\ BgGoto(j, "cleanup")
    /\ UNCHANGED <<processing_jobs, call, disk, resp, flt, dsp, sweep, aged>>

\* "Clean up input file", still inside the try block
BG_Cleanup(j) ==
    /\ bg[j].pc = "cleanup"
    /\ IF j \in disk.uploads
       THEN \/ /\ disk' = [disk EXCEPT !.uploads = @ \ {j}]
               /\ BgGoto(j, "done")
            \/ /\ BgRaise(j, "OSError")
               /\ UNCHANGED disk
       ELSE /\ BgGoto(j, "done")
            /\ UNCHANGED disk
    /\ UNCHANGED <<processing_jobs, job, call, resp, flt, dsp, sweep, aged>>

\* except Exception as e: job.status = 'error'
BG_ExceptStatus(j) ==
    /\ bg[j].pc = "except"
    /\ job' = [job EXCEPT ![j].status = "error"]
    /\ BgGoto(j, "except_message")
    /\ UNCHANGED <<processing_jobs, call, disk, resp, flt, dsp, sweep, aged>>

\* job.error_message = str(e)
BG_ExceptMessage(j) ==
    /\ bg[j].pc = "except_message"
    /\ job' = [job EXCEPT ![j].error_message = bg[j].exc]
    /\ BgGoto(j, "except_cleanup")
    /\ UNCHANGED <<processing_jobs, call, disk, resp, flt, dsp, sweep, aged>>

\* "Clean up files" in the except clause; an exception here ends the thread
BG_ExceptCleanup(j) ==
    /\ bg[j].pc = "except_cleanup"
    /\ IF j \in disk.uploads
       THEN \/ /\ disk' = [disk EXCEPT !.uploads = @ \ {j}]
               /\ BgGoto(j, "done")
            \/ /\ BgGoto(j, "died")
               /\ UNCHANGED disk
       ELSE /\ BgGoto(j, "done")
            /\ UNCHANGED disk
    /\ UNCHANGED <<processing_jobs, job, call, resp, flt, dsp, sweep, aged>>

BackgroundStep(j) ==
    \/ BG_Start(j) \/ BG_SetInitial(j) \/ BG_Returned(j) \/ BG_Raised(j)
    \/ BG_Rename(j)
    \/ BG_SetOutput(j) \/ BG_SetProgress(j) \/ BG_SetCompleted(j) \/ BG_Cleanup(j)
    \/ BG_ExceptStatus(j) \/ BG_ExceptMessage(j) \/ BG_ExceptCleanup(j)

\* the clock passes the hour after the creation of job j
Tick(j) ==
    /\ j \in processing_jobs
    /\ j \notin aged
    /\ aged' = aged \cup {j}
    /\ UNCHANGED <<processing_jobs, job, bg, call, disk, resp, flt, dsp, sweep>>

\* cleanup_old_jobs.cleanup, the body of its endless loop
\* current_time = time.time(); jobs_to_remove = []; the iterator over
\* processing_jobs.items() is made
SW_Wake ==
    /\ sweep.pc = "sleep"
    /\ sweep' = [pc |-> "scan", expired |-> aged, size |-> Cardinality(processing_jobs),
                 todo |-> processing_jobs, jobs_to_remove |-> {}]
    /\ UNCHANGED <<processing_jobs, job, bg, call, disk, resp, flt, dsp, aged>>

SweepDead == [SweepAsleep EXCEPT !.pc = "dead"]

\* one turn of the for loop: the iterator refuses a dictionary that has
\* changed size; a job older than an hour has its output file removed, if it
\* has one, and is listed, whatever its status
SW_Scan ==
    /\ sweep.pc = "scan"
    /\ IF Cardinality(processing_jobs) /= sweep.size
       THEN /\ sweep' = SweepDead
            /\ UNCHANGED disk
       ELSE IF sweep.todo = {}
       THEN /\ sweep' = [sweep EXCEPT !.pc = "delete"]
            /\ UNCHANGED disk
       ELSE LET j == CHOOSE k \in sweep.todo : \A i \in sweep.todo : k <= i
                listed == [sweep EXCEPT !.todo = @ \ {j}, !.jobs_to_remove = @ \cup {j}]
            IN  IF j \notin sweep.expired
                THEN /\ sweep' = [sweep EXCEPT !.todo = @ \ {j}]
                     /\ UNCHANGED disk
                ELSE IF job[j].output_file /= None /\ disk.outputs[j] /= NoFile
                THEN \/ /\ disk' = [disk EXCEPT !.outputs[j] = NoFile]
                        /\ sweep' = listed
                     \/ /\ sweep' = SweepDead
                        /\ UNCHANGED disk
                ELSE /\ sweep' = listed
                     /\ UNCHANGED disk
    /\ UNCHANGED <<processing_jobs, job, bg, call, resp, flt, dsp, aged>>

\* del processing_jobs[job_id]
SW_Delete ==
    /\ sweep.pc = "delete"
    /\ sweep.jobs_to_remove /= {}
    /\ LET j == CHOOSE k \in sweep.jobs_to_remove : \A i \in sweep.jobs_to_remove : k <= i
       IN  /\ processing_jobs' = processing_jobs \ {j}
           /\ sweep' = [sweep EXCEPT !.jobs_to_remove = @ \ {j}]
    /\ UNCHANGED <<job, bg, call, disk, resp, flt, dsp, aged>>

\* time.sleep(300)
SW_Sleep ==
    /\ sweep.pc = "delete"
    /\ sweep.jobs_to_remove = {}
    /\ sweep' = SweepAsleep
    /\ UNCHANGED <<processing_jobs, job, bg, call, disk, resp, flt, dsp, aged>>

SweepStep == SW_Wake \/ SW_Scan \/ SW_Delete \/ SW_Sleep

Init ==
    /\ processing_jobs = {}
    /\ job = <<>>
    /\ bg = [j \in JobIds |-> NoThread]
    /\ call = [c \in JobIds |-> IdleCall]
    /\ disk = EmptyDisk
    /\ resp = NoResp
    /\ flt = NoFlt
    /\ dsp = NoDsp
    /\ sweep = SweepAsleep
    /\ aged = {}

Next ==
    \/ UploadRejected
    \/ \E j \in JobIds, m \in UploadMethods, q \in UploadQualities,
          e \in UploadExts, f \in UploadFiles : UploadAccepted(j, m, q, e, f)
    \/ \E j \in JobIds : GetStatus(j)
    \/ \E j \in JobIds : DownloadFile(j)
    \/ \E j \in JobIds : BackgroundStep(j)
    \/ \E j \in JobIds : bg[j].pc = "in_process" /\ ProcessStep(j)
    \/ \E j \in JobIds : Tick(j)
    \/ SweepStep

Spec == Init /\ [][Next]_vars

(***************************************************************************)
(* A direct call of one of the band filters of filters.py                  *)
(***************************************************************************)
Freqs == {-100, 0, 80, 300, 4000, 50000}
Orders == {2, 5}

Audios == {[id |-> <<s>>, n |-> n, filters |-> <<>>] : s \in Signals, n \in AudioLens}

NoFilterResult == FilterResult(NoAudio, None, <<>>)

InitFilter ==
    /\ processing_jobs = {}
    /\ job = <<>>
    /\ bg = [j \in JobIds |-> NoThread]
    /\ call = [c \in JobIds |-> IdleCall]
    /\ disk = EmptyDisk
    /\ resp = NoResp
    /\ \E a \in Audios, sr \in SampleRates, lo \in Freqs, hi \in Freqs, o \in Orders :
          flt = [pc |-> "ready", kind |-> None, audio |-> a, sr |-> sr,
                 low |-> lo, high |-> hi, order |-> o, res |-> NoFilterResult]
    /\ dsp = NoDsp
    /\ sweep = SweepAsleep
    /\ aged = {}

F_Bandpass ==
    /\ flt.pc = "ready"
    /\ flt' = [flt EXCEPT !.pc = "done", !.kind = "bandpass",
                          !.res = bandpass_filter(flt.audio, flt.sr, flt.low, flt.high, flt.order)]
    /\ UNCHANGED <<processing_jobs, job, bg, call, disk, resp, dsp, sweep, aged>>

F_Bandstop ==
    /\ flt.pc = "ready"
    /\ flt' = [flt EXCEPT !.pc = "done", !.kind = "bandstop",
                          !.res = bandstop_filter(flt.audio, flt.sr, flt.low, flt.high, flt.order)]
    /\ UNCHANGED <<processing_jobs, job, bg, call, disk, resp, dsp, sweep, aged>>

F_VocalSuppression ==
    /\ flt.pc = "ready"
    /\ flt' = [flt EXCEPT !.pc = "done", !.kind = "vocal",
                          !.res = apply_vocal_suppression_filter(flt.audio, flt.sr)]
    /\ UNCHANGED <<processing_jobs, job, bg, call, disk, resp, dsp, sweep, aged>>

NextFilter == F_Bandpass \/ F_Bandstop \/ F_VocalSuppression

SpecFilter == InitFilter /\ [][NextFilter]_vars

(***************************************************************************)
(* utils.py: normalize_audio on exact numbers                              *)
(*                                                                         *)
(* A sample is kept as its sign and its square, the square an exact        *)
(* fraction <<numerator, denominator>> in lowest terms: the routine only   *)
(* squares, averages, scales and compares magnitudes, and each of these is *)
(* exact on squares (a gain g scales the square by g * g, and peak > 1.0   *)
(* is peak * peak > 1).                                                    *)
(***************************************************************************)
MaxSamples == 3

RECURSIVE Gcd(_, _)
Gcd(a, b) == IF b = 0 THEN a ELSE Gcd(b, a % b)

Frac(n, d) == IF n = 0 THEN <<0, 1>> ELSE <<n \div Gcd(n, d), d \div Gcd(n, d)>>

FracMul(p, q) ==
    LET a == Frac(p[1], q[2])
        b == Frac(q[1], p[2])
    IN  Frac(a[1] * b[1], a[2] * b[2])

FracDiv(p, q) == FracMul(p, <<q[2], q[1]>>)

FracAdd(p, q) ==
    LET g == Gcd(p[2], q[2])
    IN  Frac(p[1] * (q[2] \div g) + q[1] * (p[2] \div g), p[2] * (q[2] \div g))

FracLess(p, q) == p[1] * q[2] < q[1] * p[2]

One == <<1, 1>>

Sign(v) == IF v > 0 THEN 1 ELSE IF v < 0 THEN -1 ELSE 0

Sample(v) == [sgn |-> Sign(v), sq |-> Frac(v * v, 1)]

\* audio * gain, with gain given by its square
Scale(audio, gain2) ==
    [i \in 1..Len(audio) |->
        [sgn |-> IF gain2[1] = 0 THEN 0 ELSE audio[i].sgn,
         sq |-> FracMul(audio[i].sq, gain2)]]

RECURSIVE SumSq(_)
SumSq(audio) ==
    IF audio = <<>> THEN <<0, 1>>
    ELSE FracAdd(audio[1].sq, SumSq(Tail(audio)))

\* np.mean(audio**2): the square of the RMS
MeanSq(audio) == FracDiv(SumSq(audio), <<Len(audio), 1>>)

RECURSIVE PeakSq(_)
\* np.max(np.abs(audio)), squared
PeakSq(audio) ==
    IF Len(audio) = 1 THEN audio[1].sq
    ELSE LET rest == PeakSq(Tail(audio))
         IN  IF FracLess(audio[1].sq, rest) THEN rest ELSE audio[1].sq

\* librosa.db_to_amplitude(-3.0) squared: 10 ** (-0.3) = 0.5011..., to three places
TargetRms2 == <<501, 1000>>

\* 0.95 squared
Headroom2 == <<361, 400>>

\* a limiter that cuts each sample above full scale down to full scale
\* instead of rescaling the whole buffer
normalize_audio_hard_clip(audio) ==
    IF Len(audio) = 0 THEN audio
    ELSE IF MeanSq(audio)[1] = 0 THEN audio
    ELSE LET gain2 == FracDiv(TargetRms2, MeanSq(audio))
             normalized == Scale(audio, gain2)
         IN  [i \in 1..Len(normalized) |->
                 IF FracLess(One, normalized[i].sq)
                 THEN [normalized[i] EXCEPT !.sq = One]
                 ELSE normalized[i]]

normalize_audio(audio) ==
    IF Len(audio) = 0 THEN audio
    ELSE IF MeanSq(audio)[1] = 0 THEN audio
    ELSE LET gain2 == FracDiv(TargetRms2, MeanSq(audio))
             normalized == Scale(audio, gain2)
             peak2 == PeakSq(normalized)
         IN  IF FracLess(One, peak2)
             THEN Scale(Scale(normalized, FracDiv(One, peak2)), Headroom2)
             ELSE normalized

SampleValues == {-3, -1, 0, 1, 2}

SampleBuffers ==
    UNION {{[i \in 1..n |-> Sample(v[i])] : v \in [1..n -> SampleValues]} : n \in 0..MaxSamples}

InitNormalize ==
    /\ processing_jobs = {}
    /\ job = <<>>
    /\ bg = [c \in JobIds |-> NoThread]
    /\ call = [c \in JobIds |-> IdleCall]
    /\ disk = EmptyDisk
    /\ resp = NoResp
    /\ flt = NoFlt
    /\ \E x \in SampleBuffers :
          dsp = [pc |-> "ready", x |-> x, once |-> <<>>, twice |-> <<>>]
    /\ sweep = SweepAsleep
    /\ aged = {}

\* y = normalize_audio(x)
N_First ==
    /\ dsp.pc = "ready"
    /\ dsp' = [dsp EXCEPT !.pc = "once", !.once = normalize_audio(dsp.x)]
    /\ UNCHANGED <<processing_jobs, job, bg, call, disk, resp, flt, sweep, aged>>

\* z = normalize_audio(y)
N_Second ==
    /\ dsp.pc = "once"
    /\ dsp' = [dsp EXCEPT !.pc = "twice", !.twice = normalize_audio(dsp.once)]
    /\ UNCHANGED <<processing_jobs, job, bg, call, disk, resp, flt, sweep, aged>>

NextNormalize == N_First \/ N_Second

SpecNormalize == InitNormalize /\ [][NextNormalize]_vars

(***************************************************************************)
(* separator.py: the similarity mask of _vocal_removal on exact numbers    *)
(*                                                                         *)
(* A spectrogram is a sequence of bins, a bin a magnitude and a phase.     *)
(* Magnitudes are whole multiples of 1e-10, so that the guard term 1e-10   *)
(* of the similarity is one unit; quotients are exact fractions.           *)
(***************************************************************************)
MaxBins == 2

MagUnits == {0, 4, 5, 20}

Phases == {0, 1}

\* np.abs(stft)
Abs(stft) == [i \in 1..Len(stft) |-> stft[i].mag]

\* np.angle(stft)
Angle(stft) == [i \in 1..Len(stft) |-> stft[i].phase]

\* np.minimum(mag_left, mag_right) / (np.maximum(mag_left, mag_right) + 1e-10)
Similarity(mag_left, mag_right) ==
    [i \in 1..Len(mag_left) |->
        Frac(Min(mag_left[i], mag_right[i]), Max(mag_left[i], mag_right[i]) + 1)]

\* 0.8
Threshold == <<4, 5>>

\* 0.1
Attenuation == <<1, 10>>

\* a mask that also takes the bins whose score is exactly the threshold
VocalMaskInclusive(similarity) ==
    [i \in 1..Len(similarity) |-> ~FracLess(similarity[i], Threshold)]

\* similarity > 0.8
VocalMask(similarity) ==
    [i \in 1..Len(similarity) |-> FracLess(Threshold, similarity[i])]

\* mag_processed = mag_left.copy(); mag_processed[vocal_mask] *= 0.1
MaskMagnitude(mag_left, vocal_mask) ==
    [i \in 1..Len(mag_left) |->
        IF vocal_mask[i] THEN FracMul(Frac(mag_left[i], 1), Attenuation)
        ELSE Frac(mag_left[i], 1)]

\* mag_processed * np.exp(1j * phase_left)
Polar(mag, phase) == [i \in 1..Len(mag) |-> [mag |-> mag[i], phase |-> phase[i]]]

Spectrograms ==
    UNION {{<<l, r>> : l \in [1..n -> [mag : MagUnits, phase : Phases]],
                       r \in [1..n -> [mag : MagUnits, phase : {0}]]} : n \in 1..MaxBins}

InitMask ==
    /\ processing_jobs = {}
    /\ job = <<>>
    /\ bg = [c \in JobIds |-> NoThread]
    /\ call = [c \in JobIds |-> IdleCall]
    /\ disk = EmptyDisk
    /\ resp = NoResp
    /\ flt = NoFlt
    /\ \E s \in Spectrograms :
          dsp = [pc |-> "stft", stft_left |-> s[1], stft_right |-> s[2],
                 mag_left |-> <<>>, mag_right |-> <<>>, phase_left |-> <<>>,
                 similarity |-> <<>>, vocal_mask |-> <<>>,
                 mag_processed |-> <<>>, stft_processed |-> <<>>]
    /\ sweep = SweepAsleep
    /\ aged = {}

\* separator.py 90-92
M_Abs ==
    /\ dsp.pc = "stft"
    /\ dsp' = [dsp EXCEPT !.pc = "mags",
                          !.mag_left = Abs(dsp.stft_left),
                          !.mag_right = Abs(dsp.stft_right),
                          !.phase_left = Angle(dsp.stft_left)]
    /\ UNCHANGED <<processing_jobs, job, bg, call, disk, resp, flt, sweep, aged>>

\* separator.py 96-102
M_Mask ==
    /\ dsp.pc = "mags"
    /\ LET similarity == Similarity(dsp.mag_left, dsp.mag_right)
           vocal_mask == VocalMask(similarity)
           mag_processed == MaskMagnitude(dsp.mag_left, vocal_mask)
       IN  dsp' = [dsp EXCEPT !.pc = "masked",
                              !.similarity = similarity,
                              !.vocal_mask = vocal_mask,
                              !.mag_processed = mag_processed,
                              !.stft_processed = Polar(mag_processed, dsp.phase_left)]
    /\ UNCHANGED <<processing_jobs, job, bg, call, disk, resp, flt, sweep, aged>>

NextMask == M_Abs \/ M_Mask

SpecMask == InitMask /\ [][NextMask]_vars

(***************************************************************************)
(* Properties                                                              *)
(***************************************************************************)
Last(s) == s[Len(s)]

Contains(s, x) == \E i \in 1..Len(s) : s[i] = x

\* the first position of x in s, 0 if there is none
IndexOf(s, x) == IF Contains(s, x) THEN CHOOSE i \in 1..Len(s) : s[i] = x /\ \A k \in 1..(i - 1) : s[k] /= x ELSE 0

Ended(c) == call[c].pc \in {"returned", "raised"}

\* C1: the values process delivers to the progress callback all lie in
\* [0.0, 1.0] and never decrease, and when process returns the last value
\* delivered is exactly 1.0.
C1_ProgressMonotoneEndsAtOne ==
    \A c \in JobIds :
        LET e == call[c].emitted
        IN  /\ \A i \in 1..Len(e) : e[i] >= 0 /\ e[i] <= 10
            /\ \A i \in 1..(Len(e) - 1) : e[i] <= e[i + 1]
            /\ call[c].pc = "returned" => (Len(e) > 0 /\ Last(e) = 10)

C1_Witness ==
    \E c \in JobIds :
        /\ call[c].pc = "returned"
        /\ call[c].method = "vocal_removal"
        /\ call[c].emitted = <<1, 2, 3, 4, 6, 7, 8, 9, 10>>

\* C2: a quality that is none of low, medium, high resolves to the
\* parameters of the medium tier.
C2_UnknownQualityIsMedium ==
    \A c \in JobIds :
        (call[c].quality \notin {"low", "medium", "high"} /\ Contains(call[c].trace, "quality"))
            => call[c].params = [n_fft |-> 2048, hop_length |-> 512, win_length |-> 2048]

\* C3: a call of process with an unknown method ends in the invalid-method
\* error and in no other way, with no output file saved, no output path
\* returned and the progress 1.0 never delivered.
C3_UnknownMethodIsInvalidMethod ==
    \A c \in JobIds :
        (call[c].method \notin KnownMethods /\ Ended(c))
            => /\ call[c].pc = "raised"
               /\ call[c].err = "ValueError: Unknown method"
               /\ disk.tmp[c] = NoFile
               /\ call[c].ret = None
               /\ ~Contains(call[c].emitted, 10)

\* C4: process validates the method first: a call with an unknown method
\* never loads, resolves quality or reshapes, and a call with a known method
\* resolves quality before it reshapes the channels.
C4_MethodValidatedFirst ==
    \A c \in JobIds :
        LET t == call[c].trace
        IN  /\ call[c].method \notin KnownMethods
                => (~Contains(t, "quality") /\ ~Contains(t, "reshape"))
            /\ (Contains(t, "quality") /\ Contains(t, "reshape"))
                => IndexOf(t, "quality") < IndexOf(t, "reshape")

\* C5: the file saved is FLAC exactly when the input extension is .flac in
\* any spelling, WAV otherwise, and its suffix names the format written.
C5_ContainerFollowsExtension ==
    \A c \in JobIds :
        call[c].pc \in {"final", "returned"}
            => LET t == disk.tmp[c]
               IN  /\ t.format = (IF Lower(call[c].ext) = ExtFlac THEN "FLAC" ELSE "WAV")
                   /\ Lower(t.suffix) = (IF t.format = "FLAC" THEN ExtFlac ELSE ExtWav)

\* freq / (sr / 2) limited to [0.01, 0.99], scaled by 100 * sr
ClampedEdge(freq, sr) ==
    IF 200 * freq < sr THEN sr
    ELSE IF 200 * freq > 99 * sr THEN 99 * sr
    ELSE 200 * freq

Degenerate(low, high, sr) == ClampedEdge(low, sr) >= ClampedEdge(high, sr)

\* the vocal ranges whose clamped low edge is strictly below the high edge
LiveVocalRanges(sr) ==
    SelectSeq(vocal_ranges, LAMBDA r : ~Degenerate(r[1], r[2], sr))

LiveVocalFilters(sr) ==
    [i \in 1..Len(LiveVocalRanges(sr)) |->
        [order |-> 4, low |-> ClampedEdge(LiveVocalRanges(sr)[i][1], sr),
         high |-> ClampedEdge(LiveVocalRanges(sr)[i][2], sr), btype |-> "bandstop"]]

IsPrefix(s, t) == Len(s) <= Len(t) /\ \A i \in 1..Len(s) : s[i] = t[i]

\* C6: the band-pass and band-stop filters and each band of the vocal
\* suppression filter use the edges divided by Nyquist and clamped into
\* [0.01, 0.99]; a band whose clamped low edge is not strictly below its
\* clamped high edge designs and applies no filter and raises nothing, and
\* the buffer comes back as it went in.
C6_DegenerateBandIsIdentity ==
    flt.pc = "done" =>
        /\ flt.kind \in {"bandpass", "bandstop"} =>
              /\ Degenerate(flt.low, flt.high, flt.sr) =>
                    /\ flt.res.designed = <<>>
                    /\ flt.res.err = None
                    /\ flt.res.out = flt.audio
              /\ ~Degenerate(flt.low, flt.high, flt.sr) =>
                    /\ Len(flt.res.designed) = 1
                    /\ flt.res.designed[1].low = ClampedEdge(flt.low, flt.sr)
                    /\ flt.res.designed[1].high = ClampedEdge(flt.high, flt.sr)
                    /\ flt.res.designed[1].low >= flt.sr
                    /\ flt.res.designed[1].high <= 99 * flt.sr
        /\ flt.kind = "vocal" =>
              /\ IsPrefix(flt.res.designed, LiveVocalFilters(flt.sr))
              /\ flt.res.err = None =>
                    /\ flt.res.designed = LiveVocalFilters(flt.sr)
                    /\ flt.res.out = [flt.audio EXCEPT !.filters = LiveVocalFilters(flt.sr)]
              /\ LiveVocalRanges(flt.sr) = <<>> =>
                    /\ flt.res.err = None
                    /\ flt.res.out = flt.audio

\* a band that is in order as requested and degenerate once clamped, on a
\* buffer too short for a designed filter to be applied without an error
C6_Witness ==
    /\ flt.pc = "done"
    /\ flt.kind = "bandstop"
    /\ flt.low < flt.high
    /\ flt.audio.n = 20
    /\ flt.res = [out |-> flt.audio, err |-> None, designed |-> <<>>]

\* C7: before dispatch a 1-channel buffer becomes two identical channels, a
\* buffer of more than 2 channels its first two, a 2-channel buffer is left
\* alone; every method receives exactly two channels, and a mono signal is
\* processed as the stereo buffer made of that signal twice.
C7_TwoChannelsBeforeDispatch ==
    \A c \in JobIds :
        LET f == call[c]
            in == f.file.y
        IN  /\ Contains(f.trace, "reshape") =>
                  /\ f.y.ndim = 2
                  /\ Len(f.y.ch) = 2
                  /\ in.ndim = 1 => f.y.ch = <<in.ch[1], in.ch[1]>>
                  /\ (in.ndim = 2 /\ Len(in.ch) > 2) => f.y.ch = <<in.ch[1], in.ch[2]>>
                  /\ (in.ndim = 2 /\ Len(in.ch) = 2) => f.y = in
            /\ f.processed /= NoResult =>
                  /\ Len(f.processed.ch) = 2
                  /\ in.ndim = 1 => f.processed.ch = <<in.ch[1], in.ch[1]>>
                  /\ (in.ndim = 2 /\ in.ch = <<in.ch[1], in.ch[1]>>)
                        => f.processed.ch = <<in.ch[1], in.ch[1]>>

C7_Witness ==
    \E c \in JobIds :
        /\ call[c].file.y.ndim = 1
        /\ call[c].method = "harmonic_percussive"
        /\ call[c].pc = "returned"
        /\ call[c].processed.ch = <<"a", "a">>

\* C8: the parameters of the tiers low, medium, high are positive, with
\* window_size = fft_size, hop_size = fft_size / 4 or fft_size / 2 and
\* hop_size <= window_size <= fft_size; fft_size grows from low to medium
\* and from medium to high.
C8_TierParameters ==
    \A c \in JobIds :
        (call[c].quality \in {"low", "medium", "high"} /\ Contains(call[c].trace, "quality"))
            => LET q == call[c].quality
                   p == call[c].params
               IN  /\ p.n_fft > 0 /\ p.hop_length > 0 /\ p.win_length > 0
                   /\ p.win_length = p.n_fft
                   /\ (4 * p.hop_length = p.n_fft \/ 2 * p.hop_length = p.n_fft)
                   /\ p.hop_length <= p.win_length /\ p.win_length <= p.n_fft
                   /\ q = "medium" => p.n_fft > GetQualityParams("low").n_fft
                   /\ q = "high" => p.n_fft > GetQualityParams("medium").n_fft
                   /\ q = "low" => p.n_fft < GetQualityParams("medium").n_fft

C8_Witness ==
    \E c \in JobIds :
        /\ call[c].quality = "medium"
        /\ call[c].params = [n_fft |-> 2048, hop_length |-> 512, win_length |-> 2048]
        /\ call[c].pc = "returned"

Terminal == {"completed", "error"}

StatusMoves ==
    {<<"pending", "processing">>, <<"processing", "completed">>, <<"processing", "error">>}

\* C9: the status of a job only moves pending -> processing -> completed
\* or error, and once it is completed or error it never changes again.
C9_StatusOnlyMovesForward ==
    [][\A j \in DOMAIN job :
          \/ job'[j].status = job[j].status
          \/ /\ <<job[j].status, job'[j].status>> \in StatusMoves
             /\ job[j].status \notin Terminal]_vars

\* C10: when a step of process raises, process returns no output path, the
\* job is never completed and keeps output_file None, it ends with status
\* error and an error message, and no download of it is ever served.
C10_NoPartialOutput ==
    \A j \in DOMAIN job :
        call[j].pc = "raised" =>
            /\ call[j].ret = None
            /\ job[j].output_file = None
            /\ job[j].status \in {"processing", "error"}
            /\ bg[j].pc \in {"except_cleanup", "done", "died"} =>
                  (job[j].status = "error" /\ job[j].error_message /= None)
            /\ ~(resp.route = "download" /\ resp.id = j /\ resp.code = 200)

\* a job whose save step raised, after its thread has ended and a download
\* of it has been turned down
C10_Witness ==
    \E j \in DOMAIN job :
        /\ call[j].pc = "raised"
        /\ call[j].err = "WriteError"
        /\ bg[j].pc = "done"
        /\ job[j].status = "error"
        /\ job[j].error_message = "WriteError"
        /\ resp = Response("download", j, 400, "error", 0, None)

\* C11: on an all-zero input none of the three methods raises, and each
\* returns an all-zero result.
C11_SilenceNeverRaises ==
    \A c \in JobIds :
        (Silent(call[c].file.y) /\ call[c].method \in KnownMethods) =>
            /\ call[c].pc = "raised" => call[c].err \in {"LoadError", "WriteError"}
            /\ call[c].processed /= NoResult => Silent([ndim |-> 2, ch |-> call[c].processed.ch])

\* C12: normalising a normalised buffer changes nothing, whether the first
\* pass only applied the gain, rescaled the peak to 0.95, or returned an
\* empty or all-zero buffer as it was.
C12_NormalizeIdempotent ==
    dsp.pc = "twice" => dsp.twice = dsp.once

\* a buffer whose gain-adjusted peak was above 1.0 and came out at 0.95
C12_Witness ==
    /\ dsp.pc = "twice"
    /\ dsp.once /= dsp.x
    /\ PeakSq(dsp.once) = Headroom2
    /\ FracLess(MeanSq(dsp.once), TargetRms2)

\* C13: the mask leaves a bin at 0.1 of its left magnitude exactly when
\* min / (max + 1e-10) of the two magnitudes is strictly above 0.8 and at its
\* left magnitude otherwise; the right magnitude and the left phase are as
\* the transform gave them, and the rebuilt bin carries the left phase.
C13_MaskAttenuatesStrictlyAbove ==
    dsp.pc = "masked" =>
        /\ Len(dsp.stft_processed) = Len(dsp.stft_left)
        /\ \A i \in 1..Len(dsp.stft_left) :
              LET l == dsp.stft_left[i].mag
                  r == dsp.stft_right[i].mag
                  lo == IF l < r THEN l ELSE r
                  hi == IF l < r THEN r ELSE l
              IN  /\ 5 * lo > 4 * (hi + 1) =>
                        /\ dsp.mag_processed[i][1] * 10 = l * dsp.mag_processed[i][2]
                        /\ dsp.stft_processed[i].mag = dsp.mag_processed[i]
                  /\ 5 * lo <= 4 * (hi + 1) =>
                        /\ dsp.mag_processed[i][1] = l * dsp.mag_processed[i][2]
                        /\ dsp.stft_processed[i].mag = dsp.mag_processed[i]
                  /\ dsp.mag_left[i] = l
                  /\ dsp.mag_right[i] = r
                  /\ dsp.phase_left[i] = dsp.stft_left[i].phase
                  /\ dsp.stft_processed[i].phase = dsp.stft_left[i].phase

\* one bin whose score is exactly 0.8 and is left alone, next to a bin
\* above 0.8 that is attenuated
C13_Witness ==
    /\ dsp.pc = "masked"
    /\ \E i, k \in 1..Len(dsp.stft_left) :
          /\ dsp.similarity[i] = Threshold
          /\ dsp.stft_left[i].mag > 0
          /\ dsp.mag_processed[i] = <<dsp.stft_left[i].mag, 1>>
          /\ dsp.vocal_mask[k]
          /\ dsp.mag_processed[k] = Frac(dsp.stft_left[k].mag, 10)

\* C14: at every point of every interleaving a job whose status is
\* completed has output_file set and progress 100, a download is served only
\* for such a job and with its output file, and the progress of a job never
\* decreases from one step to the next.
C14_CompletedHasOutput ==
    /\ [](\A j \in DOMAIN job :
             job[j].status = "completed" =>
                 (job[j].output_file /= None /\ job[j].progress = 100))
    /\ []((resp.route = "download" /\ resp.code = 200) =>
             (resp.status = "completed" /\ resp.file /= None))
    /\ [][\A j \in DOMAIN job : job'[j].progress >= job[j].progress]_vars

\* a completed job, at 100, whose download has just been served
C14_Witness ==
    \E j \in DOMAIN job :
        /\ job[j].status = "completed"
        /\ job[j].progress = 100
        /\ bg[j].pc \in {"cleanup", "done"}
        /\ resp = Response("download", j, 200, "completed", 0, job[j].output_file)

\* C15: the sweep deletes from processing_jobs only jobs whose status is
\* completed or error.
C15_SweepDeletesOnlyTerminal ==
    [][\A j \in processing_jobs :
          j \notin processing_jobs' => job[j].status \in Terminal]_vars


====
